---- MODULE Spec2Model ----
(***************************************************************************)
(* A model of just-todo-it: the TODO scanner (todoScanner.ts), the tree    *)
(* provider that holds the index and derives the view (todoTreeProvider.ts)*)
(* and the event handlers of the extension (extension.ts).                 *)
(*                                                                         *)
(* Strings are sequences of one-character strings, so that the regular     *)
(* expression, trim(), toLowerCase(), startsWith() and localeCompare() are *)
(* computed character by character as the code computes them.              *)
(***************************************************************************)
EXTENDS Integers, Sequences, FiniteSets, TLC

(***************************************************************************)
(* Bounds of the model.                                                    *)
(***************************************************************************)
\* scanWorkspace() calls that may be in flight at the same time
MaxScans == 2
\* file-system events (save, create, delete) in one behaviour
MaxEvents == 1
\* refresh commands in one behaviour
MaxRefresh == 1
\* file-system events in one behaviour of the view
MaxViewEvents == 1
\* error notifications in one behaviour
MaxErrors == 1
\* tokens in a line given to the Matcher
MaxTokens == 4
\* characters in a haystack / needle given to fuzzyMatch
MaxHay == 4
MaxNeedle == 3

(***************************************************************************)
(* Characters and strings.                                                 *)
(***************************************************************************)
CR == "<CR>"
TAB == "<TAB>"

\* JavaScript's \s and the characters trim() removes (those of the model's alphabet)
WhiteSpace == {" ", TAB, CR}

\* the characters '.' of a regular expression does not match
LineTerminators == {CR}

Min(S) == CHOOSE x \in S : \A y \in S : x <= y

RECURSIVE Flatten(_)
Flatten(ss) == IF ss = <<>> THEN <<>> ELSE Head(ss) \o Flatten(Tail(ss))

\* String.prototype.trim
TrimLeft(s) ==
    LET ks == {k \in 1..Len(s) : s[k] \notin WhiteSpace}
    IN  IF ks = {} THEN <<>> ELSE SubSeq(s, Min(ks), Len(s))

TrimRight(s) ==
    LET ks == {k \in 1..Len(s) : s[k] \notin WhiteSpace}
    IN  IF ks = {} THEN <<>> ELSE SubSeq(s, 1, CHOOSE k \in ks : \A j \in ks : j <= k)

trim(s) == TrimRight(TrimLeft(s))

\* String.prototype.startsWith / endsWith
startsWith(s, t) == Len(t) <= Len(s) /\ SubSeq(s, 1, Len(t)) = t
endsWith(s, t) == Len(t) <= Len(s) /\ SubSeq(s, Len(s) - Len(t) + 1, Len(s)) = t

\* String.prototype.toLowerCase, on the letters of the model's alphabet
LowerChar(c) ==
    CASE c = "A" -> "a" [] c = "B" -> "b" [] c = "D" -> "d" [] c = "M" -> "m"
      [] c = "O" -> "o" [] c = "T" -> "t" [] c = "U" -> "u" [] c = "X" -> "x"
      [] OTHER -> c

toLowerCase(s) == [k \in 1..Len(s) |-> LowerChar(s[k])]

(***************************************************************************)
(* The Matcher: TODO_PATTERN and the exec loop of scanFile.  The pattern is *)
(* the literal TODO and an opening parenthesis, one or more characters     *)
(* other than a closing parenthesis (group 1), a closing parenthesis, a    *)
(* colon, any white space, and any characters but line terminators         *)
(* (group 2); it has the g flag.  Positions are 1-based here; a column is  *)
(* 0-based.                                                                *)
(***************************************************************************)
TodoOpen == <<"T", "O", "D", "O", "(">>

\* the first position >= from whose character is in stop, or Len(line) + 1
FirstIn(line, from, stop) ==
    LET ks == {k \in from..Len(line) : line[k] \in stop}
    IN  IF ks = {} THEN Len(line) + 1 ELSE Min(ks)

\* the first position >= from whose character is not in skip, or Len(line) + 1
FirstNotIn(line, from, skip) ==
    LET ks == {k \in from..Len(line) : line[k] \notin skip}
    IN  IF ks = {} THEN Len(line) + 1 ELSE Min(ks)

\* group 1 is greedy and cannot cross a closing parenthesis: it runs to the first one
LabelEnd(line, i) == FirstIn(line, i + Len(TodoOpen), {")"})

\* the pattern matches with its 'T' at position i
PatternMatchesAt(line, i) ==
    /\ i + Len(TodoOpen) - 1 <= Len(line)
    /\ SubSeq(line, i, i + Len(TodoOpen) - 1) = TodoOpen
    /\ LabelEnd(line, i) > i + Len(TodoOpen)
    /\ LabelEnd(line, i) + 1 <= Len(line)
    /\ line[LabelEnd(line, i) + 1] = ":"

\* the match object of a match at i: the white space is taken greedily, then group 2
\* runs to the next line terminator; lastIndex is the position after the match
PatternMatch(line, i) ==
    LET e == LabelEnd(line, i)
        w == FirstNotIn(line, e + 2, WhiteSpace)
        z == FirstIn(line, w, LineTerminators)
    IN  [index |-> i - 1,
         g1 |-> SubSeq(line, i + Len(TodoOpen), e - 1),
         g2 |-> SubSeq(line, w, z - 1),
         lastIndex |-> z]

\* the matches TODO_PATTERN.exec(line) returns in turn, starting at lastIndex = from,
\* until it returns null
RECURSIVE execAll(_, _)
execAll(line, from) ==
    LET is == {i \in from..Len(line) : PatternMatchesAt(line, i)}
    IN  IF is = {} THEN <<>>
        ELSE LET m == PatternMatch(line, Min(is))
             IN  <<m>> \o execAll(line, m.lastIndex)

\* the triples of one line
MatchLine(line) ==
    LET ms == execAll(line, 1)
    IN  [k \in 1..Len(ms) |->
            [label |-> trim(ms[k].g1), text |-> trim(ms[k].g2), column |-> ms[k].index]]

(***************************************************************************)
(* Files.  A path is named by its fsPath; PathChars gives its characters.  *)
(* The workspace folder is /w.                                             *)
(***************************************************************************)
Paths == {"/w/a.ts", "/w/b.md", "/w/n.png", "/w/out/c.ts"}

\* the order in which findFiles lists the files it finds
PathOrder == <<"/w/a.ts", "/w/b.md", "/w/n.png", "/w/out/c.ts">>

PathChars(p) ==
    CASE p = "/w/a.ts" -> <<"/", "w", "/", "a", ".", "t", "s">>
      [] p = "/w/b.md" -> <<"/", "w", "/", "b", ".", "m", "d">>
      [] p = "/w/n.png" -> <<"/", "w", "/", "n", ".", "p", "n", "g">>
      [] p = "/w/out/c.ts" -> <<"/", "w", "/", "o", "u", "t", "/", "c", ".", "t", "s">>

WorkspaceFolder == <<"/", "w", "/">>

\* vscode.workspace.asRelativePath(uri, false), or fsPath outside the workspace
relativePathOf(p) ==
    IF startsWith(PathChars(p), WorkspaceFolder)
    THEN SubSeq(PathChars(p), Len(WorkspaceFolder) + 1, Len(PathChars(p)))
    ELSE PathChars(p)

\* the segments of a path, split at '/'
RECURSIVE SplitPath(_)
SplitPath(s) ==
    LET k == FirstIn(s, 1, {"/"})
    IN  IF k > Len(s) THEN <<s>>
        ELSE <<SubSeq(s, 1, k - 1)>> \o SplitPath(SubSeq(s, k + 1, Len(s)))

\* EXCLUDE_PATTERN: the directory names of **/<dir>/** and the suffixes of **/*<suffix>
ExcludedDirs ==
    { <<"n", "o", "d", "e", "_", "m", "o", "d", "u", "l", "e", "s">>,
      <<".", "g", "i", "t">>,
      <<"o", "u", "t">>,
      <<"d", "i", "s", "t">>,
      <<".", "n", "e", "x", "t">>,
      <<"b", "u", "i", "l", "d">> }

ExcludedSuffixes ==
    { <<".", "m", "i", "n", ".", "j", "s">>,
      <<".", "m", "i", "n", ".", "c", "s", "s">> }

\* the glob EXCLUDE_PATTERN matches the workspace-relative path of p
IsExcluded(p) ==
    LET segs == SplitPath(relativePathOf(p))
    IN  \/ \E k \in 1..(Len(segs) - 1) : segs[k] \in ExcludedDirs
        \/ \E x \in ExcludedSuffixes : endsWith(segs[Len(segs)], x)

textExtensions ==
    {
      <<".","t","s">>,
      <<".","t","s","x">>,
      <<".","j","s">>,
      <<".","j","s","x">>,
      <<".","m","j","s">>,
      <<".","c","j","s">>,
      <<".","p","y">>,
      <<".","p","y","w">>,
      <<".","j","a","v","a">>,
      <<".","k","t">>,
      <<".","k","t","s">>,
      <<".","s","c","a","l","a">>,
      <<".","c">>,
      <<".","c","p","p">>,
      <<".","c","c">>,
      <<".","c","x","x">>,
      <<".","h">>,
      <<".","h","p","p">>,
      <<".","h","x","x">>,
      <<".","c","s">>,
      <<".","f","s">>,
      <<".","f","s","x">>,
      <<".","g","o">>,
      <<".","r","s">>,
      <<".","r","b">>,
      <<".","e","r","b">>,
      <<".","p","h","p">>,
      <<".","s","w","i","f","t">>,
      <<".","m">>,
      <<".","m","m">>,
      <<".","l","u","a">>,
      <<".","p","l">>,
      <<".","p","m">>,
      <<".","r">>,
      <<".","R">>,
      <<".","d","a","r","t">>,
      <<".","e","x">>,
      <<".","e","x","s">>,
      <<".","c","l","j">>,
      <<".","c","l","j","s">>,
      <<".","c","l","j","c">>,
      <<".","h","s">>,
      <<".","l","h","s">>,
      <<".","e","l","m">>,
      <<".","v","u","e">>,
      <<".","s","v","e","l","t","e">>,
      <<".","h","t","m","l">>,
      <<".","h","t","m">>,
      <<".","x","h","t","m","l">>,
      <<".","c","s","s">>,
      <<".","s","c","s","s">>,
      <<".","s","a","s","s">>,
      <<".","l","e","s","s">>,
      <<".","s","t","y","l">>,
      <<".","j","s","o","n">>,
      <<".","j","s","o","n","c">>,
      <<".","j","s","o","n","5">>,
      <<".","x","m","l">>,
      <<".","x","s","l">>,
      <<".","x","s","l","t">>,
      <<".","y","a","m","l">>,
      <<".","y","m","l">>,
      <<".","t","o","m","l">>,
      <<".","i","n","i">>,
      <<".","c","f","g">>,
      <<".","c","o","n","f">>,
      <<".","e","n","v">>,
      <<".","p","r","o","p","e","r","t","i","e","s">>,
      <<".","m","d">>,
      <<".","m","a","r","k","d","o","w","n">>,
      <<".","m","d","x">>,
      <<".","t","x","t">>,
      <<".","t","e","x","t">>,
      <<".","r","s","t">>,
      <<".","a","d","o","c">>,
      <<".","s","h">>,
      <<".","b","a","s","h">>,
      <<".","z","s","h">>,
      <<".","f","i","s","h">>,
      <<".","p","s","1">>,
      <<".","p","s","m","1">>,
      <<".","p","s","d","1">>,
      <<".","b","a","t">>,
      <<".","c","m","d">>,
      <<".","s","q","l">>,
      <<".","g","r","a","p","h","q","l">>,
      <<".","g","q","l">>,
      <<".","p","r","o","t","o">>,
      <<".","t","f">>,
      <<".","t","f","v","a","r","s">>,
      <<".","d","o","c","k","e","r","f","i","l","e">>,
      <<".","m","a","k","e","f","i","l","e">>,
      <<".","g","r","a","d","l","e">>,
      <<".","c","m","a","k","e">>
    }

extensionlessTextFiles ==
    {
      <<"d","o","c","k","e","r","f","i","l","e">>,
      <<"m","a","k","e","f","i","l","e">>,
      <<"g","e","m","f","i","l","e">>,
      <<"r","a","k","e","f","i","l","e">>,
      <<"p","r","o","c","f","i","l","e">>,
      <<"v","a","g","r","a","n","t","f","i","l","e">>,
      <<"j","e","n","k","i","n","s","f","i","l","e">>,
      <<"b","r","e","w","f","i","l","e">>,
      <<".","g","i","t","i","g","n","o","r","e">>,
      <<".","g","i","t","a","t","t","r","i","b","u","t","e","s">>,
      <<".","e","d","i","t","o","r","c","o","n","f","i","g">>,
      <<".","p","r","e","t","t","i","e","r","r","c">>,
      <<".","e","s","l","i","n","t","r","c">>,
      <<".","b","a","b","e","l","r","c">>,
      <<"l","i","c","e","n","s","e">>,
      <<"r","e","a","d","m","e">>,
      <<"c","h","a","n","g","e","l","o","g">>,
      <<"c","o","n","t","r","i","b","u","t","i","n","g">>,
      <<"a","u","t","h","o","r","s">>
    }

\* TodoScanner.isTextFile
isTextFile(p) ==
    LET lowerPath == toLowerCase(PathChars(p))
        segs == SplitPath(lowerPath)
        fileName == segs[Len(segs)]
    IN  \/ \E ext \in textExtensions : endsWith(lowerPath, ext)
        \/ \E name \in extensionlessTextFiles :
              fileName = name \/ startsWith(fileName, name \o <<".">>)

(***************************************************************************)
(* File contents: the lines text.split('\n') gives.                        *)
(***************************************************************************)
Contents == {"c0", "c1", "c2", "c3"}

Text(c) ==
    CASE c = "c0" ->
           << <<"/", "/", " ", "t", "o", "d", "o", "(", "x", ")", ":", " ", "a">>,
              <<>> >>
      [] c = "c1" ->
           << <<"/", "/", " ", "T", "O", "D", "O", "(", "x", ")", ":", " ", "a">>,
              <<"/", "/", " ", "T", "O", "D", "O", "(", "y", ")", ":", " ", "b">> >>
      [] c = "c2" ->
           << <<"T", "O", "D", "O", "(", "b", "u", "g", ")", ":", " ", "b", " ",
                "T", "O", "D", "O", "(", "x", ")", ":", " ", "a">>,
              <<"T", "O", "D", "O", "(", " ", ")", ":", " ">> >>
      [] c = "c3" ->
           << <<"T", "O", "D", "O", "(", "b", "u", "g", "-", "1", ")", ":", " ", "a">>,
              <<"t", "o", "d", "o", "(", "x", ")", ":", " ", "a">>,
              <<" ", " ", "T", "O", "D", "O", "(", "X", ")", ":", "a">>,
              <<"T", "O", "D", "O", "(", "y", ")", ":">> >>

\* what a path holds: a text, nothing (the file does not exist), or bytes that
\* openTextDocument refuses (binary, no permission)
DiskValues == Contents \cup {"absent", "unreadable"}

\* the loop of scanFile over the lines of a document of path p
scanLines(p, lines) ==
    Flatten([i \in 1..Len(lines) |->
        LET ms == MatchLine(lines[i])
        IN  [k \in 1..Len(ms) |->
                [label |-> ms[k].label,
                 text |-> ms[k].text,
                 filePath |-> p,
                 relativePath |-> relativePathOf(p),
                 line |-> i - 1,
                 column |-> ms[k].column]]])

\* scanFile without its try and catch: the promise rejects when the file cannot be read
scanFile_NoCatch(p, d) ==
    [rejected |-> d \notin Contents,
     todos |-> IF d \in Contents THEN scanLines(p, Text(d)) ELSE <<>>]

\* TodoScanner.scanFile on a path that holds d: the promise it returns never
\* rejects, an openTextDocument that throws is caught and gives no record
scanFile(p, d) ==
    [rejected |-> FALSE,
     todos |-> IF d \in Contents THEN scanLines(p, Text(d)) ELSE <<>>]

(***************************************************************************)
(* utils: fuzzyMatch and createSearchableString.                           *)
(***************************************************************************)
\* a loop that does not advance in the string after a match
RECURSIVE fuzzyLoop_Reuse(_, _, _, _)
fuzzyLoop_Reuse(str, pattern, si, pi) ==
    IF si <= Len(str) /\ pi <= Len(pattern)
    THEN IF str[si] = pattern[pi]
         THEN fuzzyLoop_Reuse(str, pattern, si, pi + 1)
         ELSE fuzzyLoop_Reuse(str, pattern, si + 1, pi)
    ELSE pi

\* the loop of fuzzyMatch from indices (si, pi), 1-based: the final patternIndex
RECURSIVE fuzzyLoop(_, _, _, _)
fuzzyLoop(str, pattern, si, pi) ==
    IF si <= Len(str) /\ pi <= Len(pattern)
    THEN fuzzyLoop(str, pattern, si + 1, IF str[si] = pattern[pi] THEN pi + 1 ELSE pi)
    ELSE pi

fuzzyMatch(str, pattern) ==
    fuzzyLoop(toLowerCase(str), toLowerCase(pattern), 1, 1) = Len(pattern) + 1

createSearchableString(relativePath, label, text) ==
    relativePath \o <<" ", "T", "O", "D", "O", "(">> \o label \o <<")", ":", " ">> \o text

(***************************************************************************)
(* String.prototype.localeCompare and Array.prototype.sort.                *)
(***************************************************************************)
\* the collation order of the characters of the model's alphabet: white space,
\* punctuation, digits, letters; a capital letter has the primary weight of its
\* small letter
Collation ==
    <<TAB, CR, " ", "_", "-", ":", ".", "(", ")", "@", "/",
      "0", "1", "2", "3", "4", "5", "6", "7", "8", "9",
      "a", "b", "c", "d", "e", "f", "g", "h", "i", "j", "k", "l", "m",
      "n", "o", "p", "q", "r", "s", "t", "u", "v", "w", "x", "y", "z">>

Primary(c) == CHOOSE k \in 1..Len(Collation) : Collation[k] = LowerChar(c)
Tertiary(c) == IF LowerChar(c) = c THEN 0 ELSE 1

\* the lexicographic comparison of two sequences of numbers: -1, 0 or 1
RECURSIVE LexCompare(_, _)
LexCompare(a, b) ==
    IF a = <<>> /\ b = <<>> THEN 0
    ELSE IF a = <<>> THEN -1
    ELSE IF b = <<>> THEN 1
    ELSE IF Head(a) < Head(b) THEN -1
    ELSE IF Head(a) > Head(b) THEN 1
    ELSE LexCompare(Tail(a), Tail(b))

\* a.localeCompare(b): the primary weights decide, then the case
localeCompare(a, b) ==
    LET p == LexCompare([k \in 1..Len(a) |-> Primary(a[k])], [k \in 1..Len(b) |-> Primary(b[k])])
    IN  IF p # 0 THEN p
        ELSE LexCompare([k \in 1..Len(a) |-> Tertiary(a[k])], [k \in 1..Len(b) |-> Tertiary(b[k])])

\* Array.prototype.sort of s with a comparator that applies localeCompare to the
\* keys, keys[i] being the key of s[i]: the sort is stable
SortByKey(s, keys) ==
    LET before(j, i) ==
            \/ localeCompare(keys[j], keys[i]) < 0
            \/ (localeCompare(keys[j], keys[i]) = 0 /\ j < i)
        rank(i) == Cardinality({j \in 1..Len(s) : before(j, i)}) + 1
    IN  [k \in 1..Len(s) |-> s[CHOOSE i \in 1..Len(s) : rank(i) = k]]

\* the keys of a Map filled in the order of s: the distinct values of s in the order
\* of their first occurrence
RECURSIVE MapKeys(_)
MapKeys(s) ==
    IF s = <<>> THEN <<>>
    ELSE LET r == MapKeys(SubSeq(s, 1, Len(s) - 1))
             x == s[Len(s)]
         IN  IF \E k \in 1..Len(r) : r[k] = x THEN r ELSE Append(r, x)

\* the decimal digits of a number below 100, as a template literal writes it
Digit(d) == <<"0", "1", "2", "3", "4", "5", "6", "7", "8", "9">>[d + 1]
NumberChars(n) == IF n < 10 THEN <<Digit(n)>> ELSE <<Digit(n \div 10), Digit(n % 10)>>

(***************************************************************************)
(* TodoTreeProvider: the derivation of the tree from an index ts, a filter *)
(* pattern fp and a view mode.  An optional field is <<>> (undefined) or   *)
(* <<value>>.                                                              *)
(***************************************************************************)
ViewModes == <<"grouped", "byTag", "flat">>

VIEW_MODE_LABELS(mode) ==
    CASE mode = "grouped" -> "Grouped by Tag & File"
      [] mode = "byTag" -> "Grouped by Tag"
      [] mode = "flat" -> "Flat"

\* a cycle that stops at the last mode, without the modulo
NextViewMode_NoWrap(mode) ==
    LET currentIndex == (CHOOSE k \in 1..Len(ViewModes) : ViewModes[k] = mode) - 1
    IN  ViewModes[Min({currentIndex + 1, Len(ViewModes) - 1}) + 1]

\* modes[(modes.indexOf(viewMode) + 1) % modes.length]
NextViewMode(mode) ==
    LET currentIndex == (CHOOSE k \in 1..Len(ViewModes) : ViewModes[k] = mode) - 1
    IN  ViewModes[((currentIndex + 1) % Len(ViewModes)) + 1]

\* a label filter that keeps the labels that start with the text after the '@'
getFilteredTodos_Prefix(ts, fp) ==
    IF fp = <<>> THEN ts
    ELSE IF startsWith(fp, <<"@">>)
         THEN SelectSeq(ts, LAMBDA todo : startsWith(todo.label, Tail(fp)))
         ELSE SelectSeq(ts, LAMBDA todo :
                  fuzzyMatch(createSearchableString(todo.relativePath, todo.label, todo.text), fp))

\* a filter that shows nothing while no pattern is set
getFilteredTodos_EmptyIsNone(ts, fp) ==
    IF fp = <<>> THEN <<>>
    ELSE IF startsWith(fp, <<"@">>)
         THEN SelectSeq(ts, LAMBDA todo : todo.label = Tail(fp))
         ELSE SelectSeq(ts, LAMBDA todo :
                  fuzzyMatch(createSearchableString(todo.relativePath, todo.label, todo.text), fp))

\* TodoTreeProvider.getFilteredTodos
getFilteredTodos(ts, fp) ==
    IF fp = <<>> THEN ts
    ELSE IF startsWith(fp, <<"@">>)
         THEN SelectSeq(ts, LAMBDA todo : todo.label = Tail(fp))
         ELSE SelectSeq(ts, LAMBDA todo :
                  fuzzyMatch(createSearchableString(todo.relativePath, todo.label, todo.text), fp))

\* new TodoTreeItem(label, collapsibleState, nodeType, todoItem, todoLabel, fileName)
TodoTreeItem(label, nodeType, todoItem, todoLabel, fileName) ==
    [label |-> label, nodeType |-> nodeType, todoItem |-> todoItem,
     todoLabel |-> todoLabel, fileName |-> fileName]

\* the display text `TODO(${label}): ${text}` of the flat view
FlatText(todo) ==
    <<"T", "O", "D", "O", "(">> \o todo.label \o <<")", ":", " ">> \o todo.text

\* `${name} (${count})`
CountLabel(name, count) == name \o <<" ", "(">> \o NumberChars(count) \o <<")">>

EmptyText == <<"(", "e", "m", "p", "t", "y", ")">>

\* a flat view in the order of the index, without the sort
getFlatItems_Unsorted(ts) ==
    [k \in 1..Len(ts) |-> TodoTreeItem(FlatText(ts[k]), "todo", <<ts[k]>>, <<>>, <<>>)]

\* TodoTreeProvider.getFlatItems
getFlatItems(ts) ==
    LET sorted == SortByKey(ts, [k \in 1..Len(ts) |-> FlatText(ts[k])])
    IN  [k \in 1..Len(sorted) |->
            TodoTreeItem(FlatText(sorted[k]), "todo", <<sorted[k]>>, <<>>, <<>>)]

\* label groups in the order of the Map, without the sort
getLabelGroups_Unsorted(ts) ==
    LET keys == MapKeys([k \in 1..Len(ts) |-> ts[k].label])
    IN  [k \in 1..Len(keys) |->
            LET label == keys[k]
                count == Len(SelectSeq(ts, LAMBDA t : t.label = label))
            IN  TodoTreeItem(CountLabel(label, count), "label", <<>>, <<label>>, <<>>)]

\* TodoTreeProvider.getLabelGroups
getLabelGroups(ts) ==
    LET keys == MapKeys([k \in 1..Len(ts) |-> ts[k].label])
        sortedLabels == SortByKey(keys, keys)
    IN  [k \in 1..Len(sortedLabels) |->
            LET label == sortedLabels[k]
                count == Len(SelectSeq(ts, LAMBDA t : t.label = label))
            IN  TodoTreeItem(CountLabel(label, count), "label", <<>>, <<label>>, <<>>)]

\* TodoTreeProvider.getFileGroups
getFileGroups(ts, label) ==
    LET labelTodos == SelectSeq(ts, LAMBDA t : t.label = label)
        keys == MapKeys([k \in 1..Len(labelTodos) |-> labelTodos[k].relativePath])
        sortedFiles == SortByKey(keys, keys)
    IN  [k \in 1..Len(sortedFiles) |->
            LET fileName == sortedFiles[k]
                count == Len(SelectSeq(labelTodos, LAMBDA t : t.relativePath = fileName))
            IN  TodoTreeItem(CountLabel(fileName, count), "file", <<>>, <<label>>, <<fileName>>)]

\* a leaf text without the placeholder
LeafText_NoPlaceholder(todo) == todo.text

\* todo.text || '(empty)'
LeafText(todo) == IF todo.text # <<>> THEN todo.text ELSE EmptyText

\* TodoTreeProvider.getTodosForFile
getTodosForFile(ts, label, fileName) ==
    LET sel == SelectSeq(ts, LAMBDA t : t.label = label /\ t.relativePath = fileName)
        sorted == SortByKey(sel, [k \in 1..Len(sel) |-> sel[k].text])
    IN  [k \in 1..Len(sorted) |->
            TodoTreeItem(LeafText(sorted[k]), "todo", <<sorted[k]>>, <<label>>, <<fileName>>)]

\* TodoTreeProvider.getTodosForLabel
getTodosForLabel(ts, label) ==
    LET sel == SelectSeq(ts, LAMBDA t : t.label = label)
        sorted == SortByKey(sel, [k \in 1..Len(sel) |-> sel[k].text])
    IN  [k \in 1..Len(sorted) |->
            TodoTreeItem(LeafText(sorted[k]), "todo", <<sorted[k]>>, <<label>>, <<>>)]

\* the nodes of a sequence of nodes, as a set
NodeSet(nodes) == {nodes[k] : k \in 1..Len(nodes)}

\* an optional string is truthy: it is defined and not empty
Truthy(opt) == opt # <<>> /\ opt[1] # <<>>

\* TodoTreeProvider.getChildren(element); element is <<>> at the root
getChildren(ts, fp, mode, element) ==
    LET filteredTodos == getFilteredTodos(ts, fp)
    IN  IF element = <<>>
        THEN IF mode = "flat" THEN getFlatItems(filteredTodos)
             ELSE getLabelGroups(filteredTodos)
        ELSE IF element[1].nodeType = "label" /\ Truthy(element[1].todoLabel)
        THEN IF mode = "byTag"
             THEN getTodosForLabel(filteredTodos, element[1].todoLabel[1])
             ELSE getFileGroups(filteredTodos, element[1].todoLabel[1])
        ELSE IF element[1].nodeType = "file" /\ Truthy(element[1].todoLabel)
                /\ Truthy(element[1].fileName)
        THEN getTodosForFile(filteredTodos, element[1].todoLabel[1], element[1].fileName[1])
        ELSE <<>>

(***************************************************************************)
(* The state.                                                              *)
(***************************************************************************)
VARIABLES
    disk,           \* what each path holds in the file system
    todos,          \* TodoTreeProvider.todos, the index
    viewMode,       \* TodoTreeProvider.viewMode
    filterPattern,  \* TodoTreeProvider.filterPattern
    currentQuery,   \* SearchViewProvider._currentQuery
    scans,          \* the scanWorkspace() calls: where each one is, what it has collected
    errorMessages,  \* the number of showErrorMessage notifications
    fired,          \* whether the step taken last fired onDidChangeTreeData
    lastOp,         \* the handler or step that ran last
    budget,         \* the events and commands still allowed in this behaviour
    arg, res        \* the argument and the result of a pure function that is applied

vars == <<disk, todos, viewMode, filterPattern, currentQuery, scans, errorMessages, fired, lastOp,
          budget, arg, res>>

Scans == 1..MaxScans

\* read records what each path held when its scanFile read it
IdleScan == [pc |-> "idle", files |-> <<>>, pending |-> {}, results |-> <<>>, read |-> <<>>]

\* the scan is awaiting vscode.workspace.findFiles
FindingScan == [pc |-> "finding", files |-> <<>>, pending |-> {}, results |-> <<>>, read |-> <<>>]

Op(name, path) == [op |-> name, path |-> path]

(***************************************************************************)
(* TodoTreeProvider: the operations on the index.                          *)
(***************************************************************************)
\* TodoTreeProvider.setTodos: the new value of the index
setTodos(ts, newTodos) == newTodos

\* TodoTreeProvider.setTodosForFile: the records of filePath are replaced by fileTodos
setTodosForFile(ts, filePath, fileTodos) ==
    SelectSeq(ts, LAMBDA t : t.filePath # filePath) \o fileTodos

\* TodoScanner.scanDocument: the records of an open document of path p and text c
scanDocumentText(p, c) == scanLines(p, Text(c))

(***************************************************************************)
(* TodoScanner.scanWorkspace, step by step.                                *)
(***************************************************************************)
\* what findFiles('**/*', EXCLUDE_PATTERN) resolves to on the file system d
findFiles(d) == SelectSeq(PathOrder, LAMBDA p : d[p] # "absent" /\ ~IsExcluded(p))

\* files.filter(file => this.isTextFile(file.fsPath))
textFilesOf(files) == SelectSeq(files, isTextFile)

\* the flattening of the results of Promise.all, in the order of textFiles
FlattenResults(files, results) ==
    Flatten([k \in 1..Len(files) |-> results[files[k]].todos])

\* Promise.all rejects when one of its promises does
AnyRejected(files, results) == \E k \in 1..Len(files) : results[files[k]].rejected

(***************************************************************************)
(* extension.ts: the handlers.                                             *)
(***************************************************************************)
\* scanDocument that calls setTodos with the records of the one document
scanDocument_SetsAll(ts, p, c) == setTodos(ts, scanDocumentText(p, c))

\* scanDocument(scanner, treeProvider, document): the new index
scanDocument(ts, p, c) == setTodosForFile(ts, p, scanDocumentText(p, c))

\* a deleteWatcher that clears the index
deleteFile_Clears(ts, p) == setTodos(ts, <<>>)

\* the body of the loop of deleteWatcher: the new index
deleteFile(ts, p) == setTodosForFile(ts, p, <<>>)

\* the filter patterns a user types or a command sets
Patterns ==
    { <<>>,
      <<"@", "b", "u", "g">>,
      <<"@">>,
      <<"@", "x">>,
      <<"a", "X">>,
      <<"b">> }

TypeOK ==
    /\ disk \in [Paths -> DiskValues]
    /\ viewMode \in {"grouped", "byTag", "flat"}
    /\ filterPattern \in Patterns
    /\ errorMessages \in 0..MaxErrors
    /\ fired \in BOOLEAN
    /\ \A s \in Scans : scans[s].pc \in {"idle", "finding", "scanning"}

\* the workspaces the extension is activated in
InitialDisks ==
    { [p \in Paths |-> "absent"],
      [p \in Paths |-> IF p = "/w/a.ts" THEN "c1" ELSE IF p = "/w/b.md" THEN "c2" ELSE "absent"],
      [p \in Paths |-> IF p = "/w/a.ts" THEN "unreadable" ELSE "c3"] }

\* activate(): the providers are constructed and the initial scan has called findFiles
Init ==
    /\ disk \in InitialDisks
    /\ todos = <<>>
    /\ viewMode = "grouped"
    /\ filterPattern = <<>>
    /\ currentQuery = <<>>
    /\ scans = [s \in Scans |-> IF s = 1 THEN FindingScan ELSE IdleScan]
    /\ errorMessages = 0
    /\ fired = FALSE
    /\ lastOp = Op("activate", "")
    /\ budget = [events |-> MaxEvents, refresh |-> MaxRefresh]
    /\ arg = <<>>
    /\ res = <<>>

\* a refresh command that cancels the scans in flight before it starts its own
Refresh_Cancels ==
    /\ budget.refresh > 0
    /\ \E s \in Scans :
          /\ scans[s].pc = "idle"
          /\ \A r \in Scans : scans[r].pc = "idle" => s <= r
          /\ scans' = [r \in Scans |-> IF r = s THEN FindingScan ELSE IdleScan]
    /\ budget' = [budget EXCEPT !.refresh = @ - 1]
    /\ lastOp' = Op("refresh", "")
    /\ fired' = FALSE
    /\ UNCHANGED <<disk, todos, viewMode, filterPattern, currentQuery, errorMessages, arg, res>>

\* the refresh command: scanWorkspace() runs up to its await of findFiles
Refresh ==
    /\ budget.refresh > 0
    /\ \E s \in Scans :
          /\ scans[s].pc = "idle"
          /\ \A r \in Scans : scans[r].pc = "idle" => s <= r
          /\ scans' = [scans EXCEPT ![s] = FindingScan]
    /\ budget' = [budget EXCEPT !.refresh = @ - 1]
    /\ lastOp' = Op("refresh", "")
    /\ fired' = FALSE
    /\ UNCHANGED <<disk, todos, viewMode, filterPattern, currentQuery, errorMessages, arg, res>>

\* findFiles resolves: the text files are filtered and scanFile is called on each,
\* each call running up to its await of openTextDocument
FindFilesResolve(s) ==
    /\ scans[s].pc = "finding"
    /\ LET textFiles == textFilesOf(findFiles(disk))
       IN  scans' = [scans EXCEPT ![s] =
               [pc |-> "scanning", files |-> textFiles,
                pending |-> {textFiles[k] : k \in 1..Len(textFiles)},
                results |-> <<>>, read |-> <<>>]]
    /\ lastOp' = Op("findFiles", "")
    /\ fired' = FALSE
    /\ UNCHANGED <<disk, todos, viewMode, filterPattern, currentQuery, errorMessages, budget, arg, res>>

\* a catch that also clears the index
FindFilesReject_Clears(s) ==
    /\ scans[s].pc = "finding"
    /\ errorMessages < MaxErrors
    /\ scans' = [scans EXCEPT ![s] = IdleScan]
    /\ errorMessages' = errorMessages + 1
    /\ todos' = setTodos(todos, <<>>)
    /\ lastOp' = Op("findFilesRejected", "")
    /\ fired' = FALSE
    /\ UNCHANGED <<disk, viewMode, filterPattern, currentQuery, budget, arg, res>>

\* findFiles rejects: scanner.scanWorkspace() throws, and scanWorkspace of extension.ts
\* catches the error and shows the error message
FindFilesReject(s) ==
    /\ scans[s].pc = "finding"
    /\ errorMessages < MaxErrors
    /\ scans' = [scans EXCEPT ![s] = IdleScan]
    /\ errorMessages' = errorMessages + 1
    /\ lastOp' = Op("findFilesRejected", "")
    /\ fired' = FALSE
    /\ UNCHANGED <<disk, todos, viewMode, filterPattern, currentQuery, budget, arg, res>>

\* a scanFile that pushes its records into the index as soon as it has them
ScanFileDone_Publishes(s, p) ==
    /\ scans[s].pc = "scanning"
    /\ p \in scans[s].pending
    /\ scans' = [scans EXCEPT ![s].pending = @ \ {p},
                              ![s].results = (p :> scanFile(p, disk[p])) @@ @,
                              ![s].read = (p :> disk[p]) @@ @]
    /\ todos' = todos \o scanFile(p, disk[p]).todos
    /\ lastOp' = Op("scanFile", p)
    /\ fired' = FALSE
    /\ UNCHANGED <<disk, viewMode, filterPattern, currentQuery, errorMessages, budget, arg, res>>

\* openTextDocument of one file settles and scanFile runs to its end on what the
\* path holds now
ScanFileDone(s, p) ==
    /\ scans[s].pc = "scanning"
    /\ p \in scans[s].pending
    /\ scans' = [scans EXCEPT ![s].pending = @ \ {p},
                              ![s].results = (p :> scanFile(p, disk[p])) @@ @,
                              ![s].read = (p :> disk[p]) @@ @]
    /\ lastOp' = Op("scanFile", p)
    /\ fired' = FALSE
    /\ UNCHANGED <<disk, todos, viewMode, filterPattern, currentQuery, errorMessages, budget, arg, res>>

\* Promise.all settles: the results are flattened and returned, and scanWorkspace of
\* extension.ts sets the index, or catches the rejection
ScanPublish(s) ==
    /\ scans[s].pc = "scanning"
    /\ scans[s].pending = {}
    /\ IF AnyRejected(scans[s].files, scans[s].results)
       THEN /\ errorMessages < MaxErrors
            /\ errorMessages' = errorMessages + 1
            /\ lastOp' = Op("scanRejected", "")
            /\ fired' = FALSE
            /\ UNCHANGED todos
       ELSE /\ todos' = setTodos(todos, FlattenResults(scans[s].files, scans[s].results))
            /\ lastOp' = Op("setTodos", "")
            /\ fired' = TRUE
            /\ UNCHANGED errorMessages
    /\ scans' = [scans EXCEPT ![s] = IdleScan]
    /\ UNCHANGED <<disk, viewMode, filterPattern, currentQuery, budget, arg, res>>

\* a document of path p is saved with text c: fileWatcher calls scanDocument
SaveDocument(p, c) ==
    /\ budget.events > 0
    /\ disk' = [disk EXCEPT ![p] = c]
    /\ todos' = scanDocument(todos, p, c)
    /\ lastOp' = Op("scanDocument", p)
    /\ fired' = TRUE
    /\ budget' = [budget EXCEPT !.events = @ - 1]
    /\ UNCHANGED <<viewMode, filterPattern, currentQuery, scans, errorMessages, arg, res>>

\* a file is created at p holding d: createWatcher opens it and calls scanDocument,
\* or logs that it could not be opened
CreateFile(p, d) ==
    /\ budget.events > 0
    /\ disk[p] = "absent"
    /\ disk' = [disk EXCEPT ![p] = d]
    /\ IF d \in Contents
       THEN /\ todos' = scanDocument(todos, p, d)
            /\ lastOp' = Op("scanCreated", p)
            /\ fired' = TRUE
       ELSE /\ lastOp' = Op("createdNotOpened", p)
            /\ fired' = FALSE
            /\ UNCHANGED todos
    /\ budget' = [budget EXCEPT !.events = @ - 1]
    /\ UNCHANGED <<viewMode, filterPattern, currentQuery, scans, errorMessages, arg, res>>

\* the file at p is deleted: deleteWatcher removes its records
DeleteFile(p) ==
    /\ budget.events > 0
    /\ disk[p] # "absent"
    /\ disk' = [disk EXCEPT ![p] = "absent"]
    /\ todos' = deleteFile(todos, p)
    /\ lastOp' = Op("deleteFile", p)
    /\ fired' = TRUE
    /\ budget' = [budget EXCEPT !.events = @ - 1]
    /\ UNCHANGED <<viewMode, filterPattern, currentQuery, scans, errorMessages, arg, res>>

\* the 'search' message of the webview: the search view stores the query and its
\* _onSearch callback calls TodoTreeProvider.setFilter, which fires the refresh
SetFilter(pattern) ==
    /\ currentQuery' = pattern
    /\ filterPattern' = pattern
    /\ lastOp' = Op("setFilter", "")
    /\ fired' = TRUE
    /\ UNCHANGED <<disk, todos, viewMode, scans, errorMessages, budget, arg, res>>

\* a getChildren that hands out the tree as it was derived before the filter was set
GetChildren_BeforeFilter(element) ==
    /\ element # <<>> => lastOp.op = "getChildren"
    /\ arg' = element
    /\ res' = getChildren(todos, <<>>, viewMode, element)
    /\ lastOp' = Op("getChildren", "")
    /\ fired' = FALSE
    /\ UNCHANGED <<disk, todos, viewMode, filterPattern, currentQuery, scans, errorMessages, budget>>

\* the tree view calls getChildren(element): for the root, or for a node of the
\* children it was handed last
GetChildren(element) ==
    /\ element # <<>> => lastOp.op = "getChildren"
    /\ arg' = element
    /\ res' = getChildren(todos, filterPattern, viewMode, element)
    /\ lastOp' = Op("getChildren", "")
    /\ fired' = FALSE
    /\ UNCHANGED <<disk, todos, viewMode, filterPattern, currentQuery, scans, errorMessages, budget>>

\* TodoTreeProvider.toggleViewMode; it returns the label of the new mode
ToggleViewMode ==
    /\ viewMode' = NextViewMode(viewMode)
    /\ lastOp' = Op("toggleViewMode", "")
    /\ fired' = TRUE
    /\ res' = VIEW_MODE_LABELS(viewMode')
    /\ UNCHANGED <<disk, todos, filterPattern, currentQuery, scans, errorMessages, budget, arg>>

\* the texts a document is saved with, and what a created file holds
SavedTexts == {"c0", "c1"}
CreatedValues == {"c3", "unreadable"}

\* the first version of extension.ts: a save or a creation scans the one document, a
\* deletion removes the records of the one file
Next ==
    \/ Refresh
    \/ \E s \in Scans : FindFilesResolve(s)
    \/ \E s \in Scans : FindFilesReject(s)
    \/ \E s \in Scans, p \in Paths : ScanFileDone(s, p)
    \/ \E s \in Scans : ScanPublish(s)
    \/ \E p \in Paths, c \in SavedTexts : SaveDocument(p, c)
    \/ \E p \in Paths, d \in CreatedValues : CreateFile(p, d)
    \/ \E p \in Paths : DeleteFile(p)

Spec == Init /\ [][Next]_vars

(***************************************************************************)
(* The second version of extension.ts: every save, creation and deletion   *)
(* calls scanAndUpdate, a scan of the whole workspace.                      *)
(***************************************************************************)
\* scanAndUpdate() runs up to its await of findFiles, in the first free slot
StartScan ==
    \E s \in Scans :
        /\ scans[s].pc = "idle"
        /\ \A r \in Scans : scans[r].pc = "idle" => s <= r
        /\ scans' = [scans EXCEPT ![s] = FindingScan]

\* a document of path p is saved with text c: fileWatcher calls scanAndUpdate
SaveRescans(p, c) ==
    /\ budget.events > 0
    /\ disk' = [disk EXCEPT ![p] = c]
    /\ StartScan
    /\ lastOp' = Op("saveRescan", p)
    /\ fired' = FALSE
    /\ budget' = [budget EXCEPT !.events = @ - 1]
    /\ UNCHANGED <<todos, viewMode, filterPattern, currentQuery, errorMessages, arg, res>>

\* a file is created at p holding d: createWatcher calls scanAndUpdate
CreateRescans(p, d) ==
    /\ budget.events > 0
    /\ disk[p] = "absent"
    /\ disk' = [disk EXCEPT ![p] = d]
    /\ StartScan
    /\ lastOp' = Op("createRescan", p)
    /\ fired' = FALSE
    /\ budget' = [budget EXCEPT !.events = @ - 1]
    /\ UNCHANGED <<todos, viewMode, filterPattern, currentQuery, errorMessages, arg, res>>

\* the file at p is deleted: deleteWatcher calls scanAndUpdate
DeleteRescans(p) ==
    /\ budget.events > 0
    /\ disk[p] # "absent"
    /\ disk' = [disk EXCEPT ![p] = "absent"]
    /\ StartScan
    /\ lastOp' = Op("deleteRescan", p)
    /\ fired' = FALSE
    /\ budget' = [budget EXCEPT !.events = @ - 1]
    /\ UNCHANGED <<todos, viewMode, filterPattern, currentQuery, errorMessages, arg, res>>

NextRescan ==
    \/ Refresh
    \/ \E s \in Scans : FindFilesResolve(s)
    \/ \E s \in Scans : FindFilesReject(s)
    \/ \E s \in Scans, p \in Paths : ScanFileDone(s, p)
    \/ \E s \in Scans : ScanPublish(s)
    \/ \E p \in Paths, c \in SavedTexts : SaveRescans(p, c)
    \/ \E p \in Paths, d \in CreatedValues : CreateRescans(p, d)
    \/ \E p \in Paths : DeleteRescans(p)

SpecRescan == Init /\ [][NextRescan]_vars

(***************************************************************************)
(* The view: the filter and the view mode change over an index that the    *)
(* initial scan has published and that single-file events keep updating.   *)
(***************************************************************************)
\* what the two scanned files of the workspace hold when the initial scan reads them
ViewDisks ==
    { [p \in Paths |-> IF p = "/w/a.ts" THEN a ELSE IF p = "/w/b.md" THEN b ELSE "absent"] :
        a \in DiskValues, b \in DiskValues }

\* the index a scan of the whole workspace publishes on the file system d
scanWorkspaceOf(d) ==
    LET textFiles == textFilesOf(findFiles(d))
    IN  FlattenResults(textFiles, [p \in Paths |-> scanFile(p, d[p])])

InitView ==
    /\ disk \in ViewDisks
    /\ todos = scanWorkspaceOf(disk)
    /\ viewMode = "grouped"
    /\ filterPattern = <<>>
    /\ currentQuery = <<>>
    /\ scans = [s \in Scans |-> IdleScan]
    /\ errorMessages = 0
    /\ fired = TRUE
    /\ lastOp = Op("setTodos", "")
    /\ budget = [events |-> MaxViewEvents, refresh |-> 0]
    /\ arg = <<>>
    /\ res = <<>>

NextView ==
    \/ \E pattern \in Patterns : SetFilter(pattern)
    \/ ToggleViewMode
    \/ \E p \in Paths, c \in SavedTexts : SaveDocument(p, c)
    \/ \E p \in Paths, d \in CreatedValues : CreateFile(p, d)
    \/ \E p \in Paths : DeleteFile(p)

SpecView == InitView /\ [][NextView]_vars

(***************************************************************************)
(* The tree view: it asks for the children of the root and of the nodes it *)
(* was handed, while the initial scan publishes and the filter and the     *)
(* view mode change.                                                       *)
(***************************************************************************)
TreeDisks ==
    { [p \in Paths |-> IF p = "/w/a.ts" THEN a ELSE IF p = "/w/b.md" THEN b ELSE "absent"] :
        a \in {"c1", "c3"}, b \in {"c2", "absent"} }

TreePatterns == { <<>>, <<"@", "x">>, <<"b">> }

\* the elements the tree view can ask about: the root, or a node of the last answer
TreeElements ==
    {<<>>} \cup (IF lastOp.op = "getChildren" THEN {<<res[k]>> : k \in 1..Len(res)} ELSE {})

InitTree ==
    /\ disk \in TreeDisks
    /\ todos = <<>>
    /\ viewMode = "grouped"
    /\ filterPattern = <<>>
    /\ currentQuery = <<>>
    /\ scans = [s \in Scans |-> IF s = 1 THEN FindingScan ELSE IdleScan]
    /\ errorMessages = 0
    /\ fired = FALSE
    /\ lastOp = Op("activate", "")
    /\ budget = [events |-> 0, refresh |-> 0]
    /\ arg = <<>>
    /\ res = <<>>

NextTree ==
    \/ \E s \in Scans : FindFilesResolve(s)
    \/ \E s \in Scans : FindFilesReject(s)
    \/ \E s \in Scans, p \in Paths : ScanFileDone(s, p)
    \/ \E s \in Scans : ScanPublish(s)
    \/ \E pattern \in TreePatterns : SetFilter(pattern)
    \/ ToggleViewMode
    \/ \E element \in TreeElements : GetChildren(element)

SpecTree == InitTree /\ [][NextTree]_vars

(***************************************************************************)
(* The search view and the commands that set the filter.                   *)
(***************************************************************************)
\* the 'clear' message of the webview
ClearMessage ==
    /\ currentQuery' = <<>>
    /\ filterPattern' = <<>>
    /\ lastOp' = Op("clearMessage", "")
    /\ fired' = TRUE
    /\ UNCHANGED <<disk, todos, viewMode, scans, errorMessages, budget, arg, res>>

\* a search command that sets the filter and leaves the search view as it is
SearchCommand_NoSetQuery(input) ==
    /\ IF input # <<>>
       THEN /\ filterPattern' = input[1]
            /\ fired' = TRUE
       ELSE /\ fired' = FALSE
            /\ UNCHANGED filterPattern
    /\ lastOp' = Op("searchCommand", "")
    /\ UNCHANGED <<disk, todos, viewMode, currentQuery, scans, errorMessages, budget, arg, res>>

\* the search command, from the moment showInputBox settles: with the text the user
\* entered, or with undefined (<<>>) when the box was dismissed
SearchCommand(input) ==
    /\ IF input # <<>>
       THEN /\ filterPattern' = input[1]
            /\ currentQuery' = input[1]
            /\ fired' = TRUE
       ELSE /\ fired' = FALSE
            /\ UNCHANGED <<filterPattern, currentQuery>>
    /\ lastOp' = Op("searchCommand", "")
    /\ UNCHANGED <<disk, todos, viewMode, scans, errorMessages, budget, arg, res>>

\* the clearSearch command: setFilter(''), then SearchViewProvider.clearSearch, which
\* empties the query and calls _onSearch('')
ClearSearchCommand ==
    /\ filterPattern' = <<>>
    /\ currentQuery' = <<>>
    /\ lastOp' = Op("clearSearch", "")
    /\ fired' = TRUE
    /\ UNCHANGED <<disk, todos, viewMode, scans, errorMessages, budget, arg, res>>

\* the scopeToLabel command on item: undefined (<<>>) or a node of the tree
ScopeToLabel(item) ==
    /\ IF item # <<>> /\ Truthy(item[1].todoLabel)
       THEN LET labelFilter == <<"@">> \o item[1].todoLabel[1]
            IN  /\ filterPattern' = labelFilter
                /\ currentQuery' = labelFilter
                /\ fired' = TRUE
       ELSE /\ fired' = FALSE
            /\ UNCHANGED <<filterPattern, currentQuery>>
    /\ lastOp' = Op("scopeToLabel", "")
    /\ UNCHANGED <<disk, todos, viewMode, scans, errorMessages, budget, arg, res>>

\* what a command can be invoked on: nothing, a node at the root, or a child of one
CommandItems ==
    {<<>>}
        \cup {<<node>> : node \in NodeSet(getChildren(todos, filterPattern, viewMode, <<>>))}
        \cup UNION {{<<child>> : child \in
                        NodeSet(getChildren(todos, filterPattern, viewMode, <<node>>))} :
                    node \in NodeSet(getChildren(todos, filterPattern, viewMode, <<>>))}

\* what the user enters in the input box, or undefined
InputBoxValues == {<<>>} \cup {<<pattern>> : pattern \in TreePatterns}

InitSearch ==
    /\ disk \in TreeDisks
    /\ todos = scanWorkspaceOf(disk)
    /\ viewMode = "grouped"
    /\ filterPattern = <<>>
    /\ currentQuery = <<>>
    /\ scans = [s \in Scans |-> IdleScan]
    /\ errorMessages = 0
    /\ fired = TRUE
    /\ lastOp = Op("setTodos", "")
    /\ budget = [events |-> 0, refresh |-> 0]
    /\ arg = <<>>
    /\ res = <<>>

NextSearch ==
    \/ \E pattern \in TreePatterns : SetFilter(pattern)
    \/ ClearMessage
    \/ \E input \in InputBoxValues : SearchCommand(input)
    \/ ClearSearchCommand
    \/ \E item \in CommandItems : ScopeToLabel(item)
    \/ ToggleViewMode

SpecSearch == InitSearch /\ [][NextSearch]_vars

(***************************************************************************)
(* The indexer.                                                            *)
(***************************************************************************)
RecordsOf(ts, p) == SelectSeq(ts, LAMBDA t : t.filePath = p)
RecordsNotOf(ts, p) == SelectSeq(ts, LAMBDA t : t.filePath # p)

C2_PublishIsAtomic ==
    [][\A s \in Scans :
          /\ (lastOp'.op \in {"refresh", "findFiles", "scanFile"}) => todos' = todos
          /\ (scans[s].pc = "scanning" /\ scans'[s].pc = "idle" /\ todos' # todos) =>
                /\ scans[s].pending = {}
                /\ DOMAIN scans[s].results = {scans[s].files[k] : k \in 1..Len(scans[s].files)}
                /\ todos' = FlattenResults(scans[s].files, scans[s].results)]_vars

\* a scan is half-way: one file is scanned with records, another is pending, and the
\* index still shows the earlier published records
C2_Witness ==
    \E s \in Scans :
        /\ scans[s].pc = "scanning"
        /\ scans[s].pending # {}
        /\ \E p \in DOMAIN scans[s].results : scans[s].results[p].todos # <<>>
        /\ todos # <<>>

C5_ReadFailureIsAbsorbed ==
    [][\A s \in Scans :
          (scans[s].pc = "scanning" /\ scans'[s].pc = "idle") =>
              /\ errorMessages' = errorMessages
              /\ lastOp'.op = "setTodos"
              /\ \A p \in Paths :
                    RecordsOf(todos', p) =
                        IF p \in DOMAIN scans[s].read /\ scans[s].read[p] \in Contents
                        THEN scanLines(p, Text(scans[s].read[p]))
                        ELSE <<>>]_vars

\* a scan has published an index that holds records while a file it scans cannot be
\* read and has no record
C5_Witness ==
    /\ lastOp.op = "setTodos"
    /\ todos # <<>>
    /\ errorMessages = 0
    /\ \E p \in Paths :
          /\ disk[p] = "unreadable"
          /\ isTextFile(p) /\ ~IsExcluded(p)
          /\ RecordsOf(todos, p) = <<>>

\* C6: when the enumeration of the workspace fails the index stays as it was and one
\* error message is shown.
C6_EnumerationFailureKeepsIndex ==
    [][lastOp'.op = "findFilesRejected" =>
          /\ todos' = todos
          /\ errorMessages' = errorMessages + 1]_vars

\* an enumeration has failed while the index held records
C6_Witness ==
    /\ lastOp.op = "findFilesRejected"
    /\ errorMessages = 1
    /\ todos # <<>>

(***************************************************************************)
(* The Matcher applied to one line.                                        *)
(***************************************************************************)
Tokens ==
    << <<"T", "O", "D", "O", "(", "a", ")">>,
       <<":">>,
       <<" ">>,
       <<"x">>,
       <<"T", "O", "D", "O", "(">>,
       <<")">>,
       <<CR>> >>

\* the lines of at most MaxTokens tokens
Lines ==
    { Flatten([k \in 1..Len(f) |-> Tokens[f[k]]]) :
        f \in UNION {[1..i -> 1..Len(Tokens)] : i \in 0..MaxTokens} }

InitMatcher ==
    /\ arg \in Lines
    /\ res = <<>>
    /\ lastOp = Op("line", "")
    /\ disk = [p \in Paths |-> "absent"]
    /\ todos = <<>>
    /\ viewMode = "grouped"
    /\ filterPattern = <<>>
    /\ currentQuery = <<>>
    /\ scans = [s \in Scans |-> IdleScan]
    /\ errorMessages = 0
    /\ fired = FALSE
    /\ budget = [events |-> 0, refresh |-> 0]

\* the loop of scanFile runs on the line
ApplyMatcher ==
    /\ lastOp.op = "line"
    /\ res' = MatchLine(arg)
    /\ lastOp' = Op("MatchLine", "")
    /\ UNCHANGED <<disk, todos, viewMode, filterPattern, currentQuery, scans, errorMessages, fired,
                   budget, arg>>

SpecMatcher == InitMatcher /\ [][ApplyMatcher]_vars

\* the columns of the occurrences of TODO(label): in a line, from left to right
\* without overlap: an occurrence is the literal TODO, a label in parentheses and a
\* colon, and its text runs up to the next occurrence
RECURSIVE OccurrenceColumns(_, _)
OccurrenceColumns(line, from) ==
    LET is == {i \in from..Len(line) : PatternMatchesAt(line, i)}
    IN  IF is = {} THEN <<>>
        ELSE <<Min(is) - 1>> \o OccurrenceColumns(line, LabelEnd(line, Min(is)) + 2)

\* C4: the Matcher returns one triple for each occurrence of TODO(label): in the line,
\* in the order of the columns, each with the column of the 'T' of its occurrence.
C4_OneTriplePerOccurrence ==
    lastOp.op = "MatchLine" =>
        LET cols == OccurrenceColumns(arg, 1)
        IN  /\ Len(res) = Len(cols)
            /\ \A k \in 1..Len(res) : res[k].column = cols[k]

(***************************************************************************)
(* fuzzyMatch applied to a string and a pattern.                           *)
(***************************************************************************)
FuzzyAlphabet == {"a", "b", "A"}

StringsUpTo(n) == UNION {[1..i -> FuzzyAlphabet] : i \in 0..n}

InitFuzzy ==
    /\ arg \in [str : StringsUpTo(MaxHay), pattern : StringsUpTo(MaxNeedle)]
    /\ res = FALSE
    /\ lastOp = Op("strings", "")
    /\ disk = [p \in Paths |-> "absent"]
    /\ todos = <<>>
    /\ viewMode = "grouped"
    /\ filterPattern = <<>>
    /\ currentQuery = <<>>
    /\ scans = [s \in Scans |-> IdleScan]
    /\ errorMessages = 0
    /\ fired = FALSE
    /\ budget = [events |-> 0, refresh |-> 0]

ApplyFuzzy ==
    /\ lastOp.op = "strings"
    /\ res' = fuzzyMatch(arg.str, arg.pattern)
    /\ lastOp' = Op("fuzzyMatch", "")
    /\ UNCHANGED <<disk, todos, viewMode, filterPattern, currentQuery, scans, errorMessages, fired,
                   budget, arg>>

SpecFuzzy == InitFuzzy /\ [][ApplyFuzzy]_vars

\* n is a subsequence of h: its characters occur in h at strictly increasing positions
IsSubsequence(n, h) ==
    \E f \in [1..Len(n) -> 1..Len(h)] :
        /\ \A k \in 1..Len(n) : h[f[k]] = n[k]
        /\ \A j, k \in 1..Len(n) : j < k => f[j] < f[k]

\* C7: fuzzyMatch returns true exactly when the pattern in lower case is a
\* subsequence of the string in lower case; so it does for the empty pattern.
C7_FuzzyIsSubsequence ==
    lastOp.op = "fuzzyMatch" =>
        /\ res = IsSubsequence(toLowerCase(arg.pattern), toLowerCase(arg.str))
        /\ (arg.pattern = <<>> => res)

\* a pattern of two characters has matched a string in which the two are apart and
\* of another case
C7_Witness ==
    /\ lastOp.op = "fuzzyMatch"
    /\ res
    /\ arg.pattern = <<"A", "b">>
    /\ arg.str = <<"b", "a", "A", "b">>

(***************************************************************************)
(* The view.                                                               *)
(***************************************************************************)
\* the number of positions of s that hold x
Count(s, x) == Cardinality({k \in 1..Len(s) : s[k] = x})

\* the j-th smallest element of a set K of numbers
Nth(K, j) == CHOOSE k \in K : Cardinality({i \in K : i < k}) = j - 1

Filtered == getFilteredTodos(todos, filterPattern)

\* C8: with a pattern that begins with '@' the filtered set holds exactly the records
\* of the index whose label is the text after the '@', character for character.
C8_ExactLabelFilter ==
    (filterPattern # <<>> /\ filterPattern[1] = "@") =>
        LET want == SubSeq(filterPattern, 2, Len(filterPattern))
            K == {k \in 1..Len(todos) : todos[k].label = want}
        IN  /\ Len(Filtered) = Cardinality(K)
            /\ \A j \in 1..Len(Filtered) : Filtered[j] = todos[Nth(K, j)]
            /\ \A j \in 1..Len(Filtered) :
                  /\ Len(Filtered[j].label) = Len(filterPattern) - 1
                  /\ \A i \in 1..Len(Filtered[j].label) :
                        Filtered[j].label[i] = filterPattern[i + 1]

\* the filter is @bug over an index that holds a record of label bug and one of
\* label bug-1
C8_Witness ==
    /\ lastOp.op = "setFilter"
    /\ filterPattern = <<"@", "b", "u", "g">>
    /\ \E k \in 1..Len(todos) : todos[k].label = <<"b", "u", "g">>
    /\ \E k \in 1..Len(todos) : todos[k].label = <<"b", "u", "g", "-", "1">>

\* C9: with the empty pattern the filtered set is the index: the records the scan
\* produced, as often, in the same order.
C9_EmptyFilterIsIdentity ==
    filterPattern = <<>> =>
        /\ Filtered = todos
        /\ (lastOp.op = "setTodos" => Filtered = scanWorkspaceOf(disk))

\* the filter has been set back to the empty pattern over an index of several records
C9_Witness ==
    /\ lastOp.op = "setFilter"
    /\ filterPattern = <<>>
    /\ Len(todos) >= 3

RootChildren == getChildren(todos, filterPattern, viewMode, <<>>)

\* C10: in the grouped and the byTag mode the children of the root are one label node
\* for each label of the filtered set and no other, in the order of the labels, each
\* with the number of filtered records of its label.
C10_LabelGroups ==
    viewMode # "flat" =>
        LET labels == {Filtered[k].label : k \in 1..Len(Filtered)}
            nodes == RootChildren
        IN  /\ Len(nodes) = Cardinality(labels)
            /\ {nodes[k].todoLabel : k \in 1..Len(nodes)} = {<<l>> : l \in labels}
            /\ \A k \in 1..Len(nodes) :
                  /\ nodes[k].nodeType = "label"
                  /\ nodes[k].label =
                        CountLabel(nodes[k].todoLabel[1],
                            Cardinality({i \in 1..Len(Filtered) :
                                Filtered[i].label = nodes[k].todoLabel[1]}))
            /\ \A k \in 1..(Len(nodes) - 1) :
                  localeCompare(nodes[k].todoLabel[1], nodes[k + 1].todoLabel[1]) < 0

\* the byTag view under a filter that keeps several labels, one of them twice, and
\* drops every record of another label of the index
C10_Witness ==
    /\ viewMode = "byTag"
    /\ filterPattern # <<>>
    /\ Len(RootChildren) >= 2
    /\ \E k \in 1..Len(RootChildren) :
          Count([i \in 1..Len(Filtered) |-> Filtered[i].label], RootChildren[k].todoLabel[1]) >= 2
    /\ \E k \in 1..Len(todos) : \A i \in 1..Len(Filtered) : Filtered[i].label # todos[k].label

\* getChildren(node) on the current index, filter and view mode
ChildrenOf(node) == getChildren(todos, filterPattern, viewMode, <<node>>)

\* the filtered records of label l
FilteredOfLabel(l) == SelectSeq(Filtered, LAMBDA t : t.label = l)

\* C11: in the grouped mode the children of a label node are one file node for each
\* relative path of the filtered records of its label and no other, in the order of
\* the paths, each with the number of filtered records of that label and path; in the
\* byTag mode the children of a label node are leaf nodes, none a file node.
C11_LabelChildren ==
    viewMode # "flat" =>
        \A n \in 1..Len(RootChildren) :
            LET node == RootChildren[n]
                l == node.todoLabel[1]
                recs == FilteredOfLabel(l)
                paths == {recs[k].relativePath : k \in 1..Len(recs)}
                ch == ChildrenOf(node)
            IN  IF viewMode = "grouped"
                THEN /\ Len(ch) = Cardinality(paths)
                     /\ {ch[k].fileName : k \in 1..Len(ch)} = {<<f>> : f \in paths}
                     /\ \A k \in 1..Len(ch) :
                           /\ ch[k].nodeType = "file"
                           /\ ch[k].todoLabel = <<l>>
                           /\ ch[k].label =
                                 CountLabel(ch[k].fileName[1],
                                     Cardinality({i \in 1..Len(recs) :
                                         recs[i].relativePath = ch[k].fileName[1]}))
                     /\ \A k \in 1..(Len(ch) - 1) :
                           localeCompare(ch[k].fileName[1], ch[k + 1].fileName[1]) < 0
                ELSE \A k \in 1..Len(ch) : ch[k].nodeType = "todo"

\* the records the nodes of a sequence of leaf nodes carry, in the order of the nodes
ItemsOf(nodes) == [k \in 1..Len(nodes) |-> nodes[k].todoItem[1]]

\* C12: in the flat mode the children of the root are leaf nodes, one for each filtered
\* record, a record that occurs twice twice; their composed keys TODO(label): text
\* never decrease along the sequence, and the records of one key stand in the order
\* they have in the index.
C12_FlatSortedStable ==
    viewMode = "flat" =>
        LET nodes == RootChildren
            items == ItemsOf(nodes)
        IN  /\ Len(nodes) = Len(Filtered)
            /\ \A k \in 1..Len(nodes) :
                  nodes[k].nodeType = "todo" /\ nodes[k].todoItem # <<>>
            /\ \A k \in 1..Len(Filtered) : Count(items, Filtered[k]) = Count(Filtered, Filtered[k])
            /\ \A k \in 1..(Len(items) - 1) :
                  localeCompare(FlatText(items[k]), FlatText(items[k + 1])) <= 0
            /\ \A k \in 1..Len(Filtered) :
                  SelectSeq(items, LAMBDA t : FlatText(t) = FlatText(Filtered[k]))
                      = SelectSeq(Filtered, LAMBDA t : FlatText(t) = FlatText(Filtered[k]))

\* the flat view of an index that is not in the order of the keys and holds two
\* records of one key, from two files
C12_Witness ==
    /\ viewMode = "flat"
    /\ ItemsOf(RootChildren) # Filtered
    /\ \E j, k \in 1..Len(Filtered) :
          /\ j < k
          /\ FlatText(Filtered[j]) = FlatText(Filtered[k])
          /\ Filtered[j].filePath # Filtered[k].filePath

\* the leaf nodes of the tree: the root's children in the flat mode, the children of
\* the label nodes in the byTag mode, the children of the file nodes under the label
\* nodes in the grouped mode
LeafNodes ==
    IF viewMode = "flat" THEN NodeSet(RootChildren)
    ELSE IF viewMode = "byTag"
    THEN UNION {NodeSet(ChildrenOf(node)) : node \in NodeSet(RootChildren)}
    ELSE UNION {UNION {NodeSet(ChildrenOf(file)) : file \in NodeSet(ChildrenOf(node))} :
                    node \in NodeSet(RootChildren)}

\* the display text the leaf of a record is to have: its text, or the placeholder
\* when the text is empty
TextOrPlaceholder(todo) == IF Len(todo.text) > 0 THEN todo.text ELSE EmptyText

\* C13 as stated: in each of the three view modes the display text of every leaf node
\* is the text of its record when that text is not empty, and the placeholder
\* otherwise.
C13_LeafTextAllModes ==
    \A leaf \in LeafNodes : leaf.label = TextOrPlaceholder(leaf.todoItem[1])

\* C13, amended: in the grouped and the byTag mode the display text of every leaf node
\* is the text of its record when that text is not empty, and the placeholder
\* otherwise; in the flat mode it is the composed string TODO(label): text, with
\* nothing after the blank when the text is empty.
C13_LeafText ==
    \A leaf \in LeafNodes :
        LET todo == leaf.todoItem[1]
        IN  /\ leaf.nodeType = "todo"
            /\ IF viewMode = "flat"
               THEN leaf.label = <<"T", "O", "D", "O", "(">> \o todo.label
                                     \o <<")", ":", " ">> \o todo.text
               ELSE leaf.label = TextOrPlaceholder(todo)

\* a leaf of a record with an empty text is shown in the grouped mode, and so is a
\* leaf of a record with a text
C13_Witness ==
    /\ viewMode = "grouped"
    /\ \E leaf \in LeafNodes : leaf.todoItem[1].text = <<>>
    /\ \E leaf \in LeafNodes : leaf.todoItem[1].text # <<>>

\* the fixed order of the view modes
ModeAfter(mode) ==
    CASE mode = "grouped" -> "byTag"
      [] mode = "byTag" -> "flat"
      [] mode = "flat" -> "grouped"

\* C14: the view mode is always grouped, byTag or flat; only toggleViewMode changes
\* it; a call moves it from grouped to byTag, from byTag to flat, from flat to grouped
\* and returns the label of the mode it has set; two more calls after a call bring
\* back the mode the first call started from.
C14_CycleViewMode ==
    /\ viewMode \in {"grouped", "byTag", "flat"}
    /\ [][/\ viewMode' \in {"grouped", "byTag", "flat"}
          /\ viewMode' # viewMode => lastOp'.op = "toggleViewMode"
          /\ lastOp'.op = "toggleViewMode" =>
                /\ viewMode' = ModeAfter(viewMode)
                /\ res' = (CASE viewMode' = "grouped" -> "Grouped by Tag & File"
                             [] viewMode' = "byTag" -> "Grouped by Tag"
                             [] viewMode' = "flat" -> "Flat")
                /\ NextViewMode(NextViewMode(viewMode')) = viewMode]_vars

\* the third call in a row has brought the view back from flat to grouped
C14_Witness ==
    /\ lastOp.op = "toggleViewMode"
    /\ viewMode = "grouped"
    /\ res = "Grouped by Tag & File"

\* C15: a step of setTodos, setFilter or toggleViewMode fires the tree-change event,
\* and so does every step that changes the index, the filter or the view mode; and
\* what a call of getChildren returns is the tree of the index, the filter and the
\* view mode as they are at the call, never one derived before a change.
C15_MutationsRefresh ==
    [][/\ lastOp'.op \in {"setTodos", "setFilter", "toggleViewMode"} => fired'
       /\ <<todos, filterPattern, viewMode>>' # <<todos, filterPattern, viewMode>> => fired'
       /\ lastOp'.op = "getChildren" =>
             /\ res' = getChildren(todos', filterPattern', viewMode', arg')
             /\ \A k \in 1..Len(res') :
                   res'[k].nodeType = "todo" =>
                       \E i \in 1..Len(todos') :
                           /\ res'[k].todoItem = <<todos'[i]>>
                           /\ filterPattern' = <<"@", "x">> => todos'[i].label = <<"x">>]_vars

\* the children of the root are asked for again after the filter has changed what the
\* root shows
C15_Witness ==
    /\ lastOp.op = "getChildren"
    /\ arg = <<>>
    /\ filterPattern # <<>>
    /\ res # getChildren(todos, <<>>, viewMode, <<>>)
    /\ res # <<>>

(***************************************************************************)
(* Scans in flight together.                                               *)
(***************************************************************************)
\* the scans that are in flight
InFlight == {s \in Scans : scans[s].pc # "idle"}

\* C16: a scanWorkspace() that starts while another is in flight leaves that one as
\* it is, and starts at once; each step advances one scan and leaves the others as
\* they are; a scan that has read its files ends by publishing its own complete
\* result: the index is then, file by file, what this one scan read, whatever another
\* scan has read or published.
C16_LastWriteWins ==
    [][/\ lastOp'.op = "refresh" =>
             /\ \A s \in InFlight : scans'[s] = scans[s]
             /\ \E s \in Scans \ InFlight : scans'[s].pc = "finding"
       /\ \A s \in InFlight :
             scans'[s] # scans[s] => \A r \in Scans \ {s} : scans'[r] = scans[r]
       /\ \A s \in Scans :
             (scans[s].pc = "scanning" /\ scans'[s].pc = "idle") =>
                 /\ scans[s].pending = {}
                 /\ lastOp'.op = "setTodos"
                 /\ todos' = FlattenResults(scans[s].files, scans[s].results)
                 /\ \A p \in Paths :
                       RecordsOf(todos', p) =
                           IF p \in DOMAIN scans[s].read
                           THEN scanFile(p, scans[s].read[p]).todos
                           ELSE <<>>]_vars

\* two scans were in flight together and read different texts of one file; one of them
\* has just published and the other, with all its files read, is still to publish
C16_Witness ==
    \E s, r \in Scans :
        /\ s # r
        /\ lastOp.op = "setTodos"
        /\ scans[s].pc = "idle"
        /\ scans[r].pc = "scanning"
        /\ scans[r].pending = {}
        /\ FlattenResults(scans[r].files, scans[r].results) # todos
        /\ todos # <<>>

(***************************************************************************)
(* The index against the files.                                            *)
(***************************************************************************)
\* a path the scan of the workspace reads
Scannable(p) == ~IsExcluded(p) /\ isTextFile(p)

\* no scan is in flight and none has failed
Quiet == InFlight = {} /\ errorMessages = 0

\* C17: whenever no scan is in flight, the index holds for every file the scan reads
\* the records of what the file holds now, and none for a path that holds no file:
\* whatever refresh, save, create and delete events came before, and however they fell
\* between the steps of the scans.
C17_Converges ==
    Quiet =>
        \A p \in Paths :
            /\ Scannable(p) => RecordsOf(todos, p) = scanFile(p, disk[p]).todos
            /\ disk[p] = "absent" => RecordsOf(todos, p) = <<>>

(***************************************************************************)
(* The whole tree.                                                         *)
(***************************************************************************)
\* the leaves of the tree, each as the pair of its place in the tree and its record
LeafPlaces ==
    LET root == RootChildren
    IN  IF viewMode = "flat"
        THEN {<<<<n>>, root[n].todoItem[1]>> : n \in 1..Len(root)}
        ELSE IF viewMode = "byTag"
        THEN UNION {LET ch == ChildrenOf(root[n])
                    IN  {<<<<n, k>>, ch[k].todoItem[1]>> : k \in 1..Len(ch)} :
                        n \in 1..Len(root)}
        ELSE UNION {LET files == ChildrenOf(root[n])
                    IN  UNION {LET ch == ChildrenOf(files[f])
                               IN  {<<<<n, f, k>>, ch[k].todoItem[1]>> : k \in 1..Len(ch)} :
                                   f \in 1..Len(files)} :
                        n \in 1..Len(root)}

\* the count a group node shows after the name in its display text
ShownCount(node, name) == CHOOSE c \in 0..Len(todos) : node.label = CountLabel(name, c)

RECURSIVE SeqSum(_)
SeqSum(s) == IF s = <<>> THEN 0 ELSE Head(s) + SeqSum(Tail(s))

\* C18: for every index, filter and view mode, the tree expanded from the root has
\* one leaf for each filtered record, a record as often as the filtered set holds it;
\* in the grouped and the byTag mode the counts of the label nodes add up to the size
\* of the filtered set, and in the grouped mode the counts of the file nodes under a
\* label node add up to the count of that label node.
C18_Conservation ==
    LET root == RootChildren
        leaves == LeafPlaces
    IN  /\ Cardinality(leaves) = Len(Filtered)
        /\ \A i \in 1..Len(Filtered) :
              Cardinality({e \in leaves : e[2] = Filtered[i]}) = Count(Filtered, Filtered[i])
        /\ viewMode # "flat" =>
              SeqSum([n \in 1..Len(root) |-> ShownCount(root[n], root[n].todoLabel[1])])
                  = Len(Filtered)
        /\ viewMode = "grouped" =>
              \A n \in 1..Len(root) :
                  LET files == ChildrenOf(root[n])
                  IN  SeqSum([f \in 1..Len(files) |->
                                 ShownCount(files[f], files[f].fileName[1])])
                          = ShownCount(root[n], root[n].todoLabel[1])

(***************************************************************************)
(* The search view.                                                        *)
(***************************************************************************)
\* C19: after every webview message (search, clear) and every command that sets the
\* filter (search with or without input, clearSearch, scopeToLabel) the query the
\* search view stores is the filter pattern of the tree provider.
C19_QueryIsFilter == currentQuery = filterPattern

\* the scopeToLabel command on a node of the tree has set a label filter
C19_Witness ==
    /\ lastOp.op = "scopeToLabel"
    /\ fired
    /\ filterPattern = <<"@", "b", "u", "g">>
    /\ currentQuery # <<>>

====
